---------------------------- MODULE Spec2Model ----------------------------
(***************************************************************************)
(* A model of nayan::serializer::SerializationUtility and                  *)
(* nayan::validation::ValidationUtility.                                   *)
(*                                                                         *)
(* Text (StdString) is a sequence of one-character strings.  Integer       *)
(* types keep a width, scaled down: IntBits stands for the 32-bit types    *)
(* and LongBits for the 64-bit ones (long long, int64_t, uint64_t).        *)
(* The JSON library the code calls (ArduinoJson: deserializeJson,          *)
(* serializeJson, is<T>, as<T>, isNull) is modelled by Parse, Write and    *)
(* the Is / As operators, for integer, boolean, string, null, array and    *)
(* object nodes; floating point literals are outside the modelled texts.   *)
(***************************************************************************)
EXTENDS Integers, Sequences, FiniteSets, TLC

\* Scaled widths of the integer types.
IntBits == 10
LongBits == 12
\* Width of char / unsigned char / UInt8.
CharBits == 8
\* Longest container value built by the serializer actions.
MaxElems == 2

RECURSIVE Pow2(_)
Pow2(n) == IF n = 0 THEN 1 ELSE 2 * Pow2(n - 1)

(***************************************************************************)
(* Characters and text                                                     *)
(***************************************************************************)
Digits == <<"0", "1", "2", "3", "4", "5", "6", "7", "8", "9">>

IsDigit(c) == \E i \in 1..10 : Digits[i] = c

DigitVal(c) == (CHOOSE i \in 1..10 : Digits[i] = c) - 1

\* The characters whose codes the model uses, with their ASCII codes.
CharTable ==
    << <<"\t", 9>>, <<"\n", 10>>, <<"\r", 13>>, <<" ", 32>>, <<"\"", 34>>,
       <<"+", 43>>, <<",", 44>>, <<"-", 45>>, <<":", 58>>,
       <<"0", 48>>, <<"1", 49>>, <<"2", 50>>, <<"3", 51>>, <<"4", 52>>,
       <<"5", 53>>, <<"6", 54>>, <<"7", 55>>, <<"8", 56>>, <<"9", 57>>,
       <<"A", 65>>, <<"E", 69>>, <<"F", 70>>, <<"L", 76>>, <<"R", 82>>,
       <<"S", 83>>, <<"T", 84>>, <<"U", 85>>, <<"[", 91>>, <<"\\", 92>>,
       <<"]", 93>>, <<"a", 97>>, <<"b", 98>>, <<"c", 99>>, <<"e", 101>>,
       <<"f", 102>>, <<"k", 107>>, <<"l", 108>>, <<"n", 110>>, <<"r", 114>>,
       <<"s", 115>>, <<"t", 116>>, <<"u", 117>>, <<"x", 120>>, <<"{", 123>>,
       <<"}", 125>> >>

\* The character with code n (the text operator<< writes for a char).
Chr(n) == CharTable[CHOOSE i \in 1..Len(CharTable) : CharTable[i][2] = n][1]

\* The code of character c (static_cast<T>(input[0])).
Ord(c) == CharTable[CHOOSE i \in 1..Len(CharTable) : CharTable[i][1] = c][2]

IsSpace(c) == c \in {" ", "\t", "\n", "\r"}

\* The text left in the case it came in.
ToLowerNothing(s) == s

\* std::transform(..., ::tolower) over the capitals the model uses.
ToLower(s) ==
    [i \in 1..Len(s) |->
        CASE s[i] = "A" -> "a" [] s[i] = "E" -> "e" [] s[i] = "F" -> "f"
          [] s[i] = "L" -> "l" [] s[i] = "R" -> "r" [] s[i] = "S" -> "s"
          [] s[i] = "T" -> "t" [] s[i] = "U" -> "u"
          [] OTHER -> s[i]]

RECURSIVE NatToText(_)
NatToText(n) ==
    IF n < 10 THEN <<Digits[n + 1]>>
    ELSE NatToText(n \div 10) \o <<Digits[(n % 10) + 1]>>

\* Decimal text of an integer (operator<< on an integer, std::to_string).
IntToText(n) == IF n < 0 THEN <<"-">> \o NatToText(-n) ELSE NatToText(n)

\* Lexicographic order on text by character code (std::string operator<).
RECURSIVE TextLess(_, _)
TextLess(a, b) ==
    IF b = <<>> THEN FALSE
    ELSE IF a = <<>> THEN TRUE
    ELSE IF a[1] = b[1] THEN TextLess(Tail(a), Tail(b))
    ELSE Ord(a[1]) < Ord(b[1])

RECURSIVE SkipSpaces(_, _)
SkipSpaces(s, i) ==
    IF i <= Len(s) /\ IsSpace(s[i]) THEN SkipSpaces(s, i + 1) ELSE i


(***************************************************************************)
(* JSON document nodes (ArduinoJson JsonVariant).  A node is a record      *)
(* [t, b, n, s, items]: t is its type, b / n / s the scalar it holds,      *)
(* items the elements of an array or the [k, v] members of an object.      *)
(* "unbound" is the variant operator[] returns for a missing member.       *)
(***************************************************************************)
JNode(t, b, n, s, items) == [t |-> t, b |-> b, n |-> n, s |-> s, items |-> items]

JNull == JNode("null", FALSE, 0, <<>>, <<>>)
JUnbound == JNode("unbound", FALSE, 0, <<>>, <<>>)
JBool(b) == JNode("bool", b, 0, <<>>, <<>>)
JNum(n) == JNode("num", FALSE, n, <<>>, <<>>)
JStr(s) == JNode("str", FALSE, 0, s, <<>>)
JArr(items) == JNode("arr", FALSE, 0, <<>>, items)
JObj(members) == JNode("obj", FALSE, 0, <<>>, members)

\* Ranges of the integer types that JSON numbers are converted to.
SignedMin(bits) == -Pow2(bits - 1)
SignedMax(bits) == Pow2(bits - 1) - 1
UnsignedMax(bits) == Pow2(bits) - 1

\* JsonVariant::isNull(): a null node or a missing member.
IsNullNode(node) == node.t \in {"null", "unbound"}

\* is<const char*>() / is<StdString>(), is<JsonArray>(), is<JsonObject>(), is<bool>().
IsStrNode(node) == node.t = "str"
IsArrNode(node) == node.t = "arr"
IsObjNode(node) == node.t = "obj"
IsBoolNode(node) == node.t = "bool"

\* is<T>() for an integer type T with the range lo..hi.
IsIntNode(node, lo, hi) == node.t = "num" /\ lo <= node.n /\ node.n <= hi

\* parseNumber<T>(text) of as<T>() on a string node: a whole decimal integer, else 0.
TextIsInteger(s) ==
    LET d == IF Len(s) > 0 /\ s[1] \in {"-", "+"} THEN Tail(s) ELSE s
    IN  Len(d) > 0 /\ \A i \in 1..Len(d) : IsDigit(d[i])

RECURSIVE DigitsValue(_)
DigitsValue(d) ==
    IF d = <<>> THEN 0
    ELSE 10 * DigitsValue(SubSeq(d, 1, Len(d) - 1)) + DigitVal(d[Len(d)])

TextIntegerValue(s) ==
    IF s[1] = "-" THEN -DigitsValue(Tail(s))
    ELSE IF s[1] = "+" THEN DigitsValue(Tail(s))
    ELSE DigitsValue(s)

\* as<T>() for an integer type T with the range lo..hi: the number when it
\* is in range, 0 or 1 for a boolean, the number a string spells, else 0.
AsIntNode(node, lo, hi) ==
    LET inRange(v) == IF lo <= v /\ v <= hi THEN v ELSE 0
    IN  CASE node.t = "num" -> inRange(node.n)
          [] node.t = "float" -> inRange(node.n)
          [] node.t = "bool" -> IF node.b THEN 1 ELSE 0
          [] node.t = "str" ->
                IF TextIsInteger(node.s) THEN inRange(TextIntegerValue(node.s)) ELSE 0
          [] OTHER -> 0

\* as<bool>(): the boolean, a number's truth value, false for null, true for the rest.
AsBoolNode(node) ==
    CASE node.t = "bool" -> node.b
      [] node.t \in {"num", "float"} -> node.n # 0
      [] node.t \in {"null", "unbound"} -> FALSE
      [] OTHER -> TRUE

\* as<const char*>(): the text of a string node, nullptr for every other node.
AsCStrIsNull(node) == node.t # "str"
AsCStr(node) == node.s

\* operator[](key) on a document: the member's node (the last one wins), or unbound.
Member(node, key) ==
    IF node.t = "obj" /\ \E i \in 1..Len(node.items) : node.items[i].k = key
    THEN node.items[CHOOSE i \in 1..Len(node.items) :
                       /\ node.items[i].k = key
                       /\ \A j \in (i + 1)..Len(node.items) : node.items[j].k # key].v
    ELSE JUnbound

\* obj[key] = value: replaces the member with that key, or appends one.
SetMember(members, key, value) ==
    IF \E i \in 1..Len(members) : members[i].k = key
    THEN [i \in 1..Len(members) |->
            IF members[i].k = key THEN [k |-> key, v |-> value] ELSE members[i]]
    ELSE Append(members, [k |-> key, v |-> value])

(***************************************************************************)
(* serializeJson: a node to its compact JSON text.                         *)
(***************************************************************************)
RECURSIVE EscapeText(_)
EscapeText(s) ==
    IF s = <<>> THEN <<>>
    ELSE (CASE s[1] = "\"" -> <<"\\", "\"">>
            [] s[1] = "\\" -> <<"\\", "\\">>
            [] s[1] = "\n" -> <<"\\", "n">>
            [] s[1] = "\t" -> <<"\\", "t">>
            [] s[1] = "\r" -> <<"\\", "r">>
            [] OTHER -> <<s[1]>>) \o EscapeText(Tail(s))

WriteString(s) == <<"\"">> \o EscapeText(s) \o <<"\"">>

RECURSIVE Write(_)
RECURSIVE WriteItems(_)
RECURSIVE WriteMembers(_)
Write(node) ==
    CASE node.t \in {"null", "unbound"} -> <<"n", "u", "l", "l">>
      [] node.t = "bool" ->
            IF node.b THEN <<"t", "r", "u", "e">> ELSE <<"f", "a", "l", "s", "e">>
      [] node.t \in {"num", "float"} -> IntToText(node.n)
      [] node.t = "str" -> WriteString(node.s)
      [] node.t = "arr" -> <<"[">> \o WriteItems(node.items) \o <<"]">>
      [] node.t = "obj" -> <<"{">> \o WriteMembers(node.items) \o <<"}">>

WriteItems(items) ==
    IF items = <<>> THEN <<>>
    ELSE IF Len(items) = 1 THEN Write(items[1])
    ELSE Write(items[1]) \o <<",">> \o WriteItems(Tail(items))

WriteMembers(members) ==
    IF members = <<>> THEN <<>>
    ELSE LET one == WriteString(members[1].k) \o <<":">> \o Write(members[1].v)
         IN  IF Len(members) = 1 THEN one
             ELSE one \o <<",">> \o WriteMembers(Tail(members))

(***************************************************************************)
(* deserializeJson: text to a document.  A parse result is                 *)
(* [ok, node, next]: next is the position after the value read.  The       *)
(* parser reads one value and ignores what follows it.                     *)
(***************************************************************************)
ParseFail == [ok |-> FALSE, node |-> JNull, next |-> 0]
ParseOk(node, next) == [ok |-> TRUE, node |-> node, next |-> next]

RECURSIVE NumberEnd(_, _)
NumberEnd(s, i) ==
    IF i <= Len(s) /\ (IsDigit(s[i]) \/ s[i] \in {"+", "-", ".", "e", "E"})
    THEN NumberEnd(s, i + 1)
    ELSE i

\* The number a numeric token spells: an integer the 64-bit types hold,
\* else a floating point number.
NumberNode(v) ==
    IF SignedMin(LongBits) <= v /\ v <= UnsignedMax(LongBits) 
    THEN JNum(v)
    ELSE JNode("float", FALSE, v, <<>>, <<>>)

ParseNumberToken(tok, e) ==
    IF TextIsInteger(tok) THEN ParseOk(NumberNode(TextIntegerValue(tok)), e) ELSE ParseFail

ParseNumberTo(s, i, e) == ParseNumberToken(SubSeq(s, i, e - 1), e)

\* The character an escape sequence stands for ("" for an unknown one).
Unescape(c) ==
    CASE c \in {"\"", "\\"} -> c
      [] c = "n" -> "\n"
      [] c = "t" -> "\t"
      [] c = "r" -> "\r"
      [] OTHER -> ""

\* The text of a quoted string from position i (after the opening quote):
\* [ok, text, next].
ScanFail == [ok |-> FALSE, text |-> <<>>, next |-> 0]

RECURSIVE ScanString(_, _, _)
ScanString(s, i, acc) ==
    IF i > Len(s) THEN ScanFail
    ELSE IF s[i] = "\"" THEN [ok |-> TRUE, text |-> acc, next |-> i + 1]
    ELSE IF s[i] = "\\" /\ (i + 1 > Len(s) \/ Unescape(s[i + 1]) = "") THEN ScanFail
    ELSE ScanString(s, IF s[i] = "\\" THEN i + 2 ELSE i + 1,
                    Append(acc, IF s[i] = "\\" THEN Unescape(s[i + 1]) ELSE s[i]))

StringNode(r) == IF r.ok THEN ParseOk(JStr(r.text), r.next) ELSE ParseFail

Keyword(s, i, w, node) ==
    IF i + Len(w) - 1 <= Len(s) /\ SubSeq(s, i, i + Len(w) - 1) = w
    THEN ParseOk(node, i + Len(w))
    ELSE ParseFail

RECURSIVE ParseValue(_, _)
RECURSIVE ParseElems(_, _, _)
RECURSIVE ParseMembers(_, _, _)

\* After an element: "]" ends the array, "," brings the next element.
ParseElemsSep(s, acc, j) ==
    IF j > Len(s) THEN ParseFail
    ELSE IF s[j] = "]" THEN ParseOk(JArr(acc), j + 1)
    ELSE IF s[j] = "," THEN ParseElems(s, acc, ParseValue(s, j + 1))
    ELSE ParseFail

\* The array whose elements so far are acc, r being the parse of the next one.
ParseElems(s, acc, r) ==
    IF r.ok THEN ParseElemsSep(s, Append(acc, r.node), SkipSpaces(s, r.next))
    ELSE ParseFail

ParseArrayAt(s, j) ==
    IF j <= Len(s) /\ s[j] = "]" THEN ParseOk(JArr(<<>>), j + 1)
    ELSE ParseElems(s, <<>>, ParseValue(s, j))

\* After a member: "}" ends the object, "," brings the next member.
ParseMembersSep(s, acc, j) ==
    IF j > Len(s) THEN ParseFail
    ELSE IF s[j] = "}" THEN ParseOk(JObj(acc), j + 1)
    ELSE IF s[j] = "," THEN ParseMembers(s, acc, SkipSpaces(s, j + 1))
    ELSE ParseFail

\* A repeated key replaces the value of the member read before.
ParseMemberValue(s, acc, k, r) ==
    IF r.ok THEN ParseMembersSep(s, SetMember(acc, k, r.node), SkipSpaces(s, r.next))
    ELSE ParseFail

ParseMemberColon(s, acc, k, c) ==
    IF c <= Len(s) /\ s[c] = ":" THEN ParseMemberValue(s, acc, k, ParseValue(s, c + 1))
    ELSE ParseFail

ParseMemberKey(s, acc, key) ==
    IF key.ok THEN ParseMemberColon(s, acc, key.text, SkipSpaces(s, key.next))
    ELSE ParseFail

\* The object whose members so far are acc, the next one starting at i: a
\* quoted key, ":", a value.
ParseMembers(s, acc, i) ==
    IF i <= Len(s) /\ s[i] = "\"" THEN ParseMemberKey(s, acc, ScanString(s, i + 1, <<>>))
    ELSE ParseFail

ParseObjectAt(s, j) ==
    IF j <= Len(s) /\ s[j] = "}" THEN ParseOk(JObj(<<>>), j + 1)
    ELSE ParseMembers(s, <<>>, j)

\* The value that starts at position i (white space skipped).
ParseValueAt(s, i) ==
    IF i > Len(s) THEN ParseFail
    ELSE CASE s[i] = "[" -> ParseArrayAt(s, SkipSpaces(s, i + 1))
           [] s[i] = "{" -> ParseObjectAt(s, SkipSpaces(s, i + 1))
           [] s[i] = "\"" -> StringNode(ScanString(s, i + 1, <<>>))
           [] s[i] = "t" -> Keyword(s, i, <<"t", "r", "u", "e">>, JBool(TRUE))
           [] s[i] = "f" -> Keyword(s, i, <<"f", "a", "l", "s", "e">>, JBool(FALSE))
           [] s[i] = "n" -> Keyword(s, i, <<"n", "u", "l", "l">>, JNull)
           [] OTHER -> ParseNumberTo(s, i, NumberEnd(s, i))

ParseValue(s, i) == ParseValueAt(s, SkipSpaces(s, i))

\* deserializeJson(doc, input): [ok, node].
Parse(s) == ParseValue(s, 1)

(***************************************************************************)
(* Types.  A type is [cat, name, args, n]: args are the inner type of an   *)
(* optional, the element type of a sequential container, the key and       *)
(* mapped types of a map; n is the size of a fixed-size array.             *)
(*                                                                         *)
(* Values: a bool is a BOOLEAN, an integer or character an Int (a          *)
(* character is its code), a string a text, an optional <<>> or <<v>>, a   *)
(* sequential container the sequence of its elements in iteration order    *)
(* (a set: ascending, no duplicates), a map the sequence of its [k, v]     *)
(* entries in ascending key order.                                         *)
(***************************************************************************)
Ty(cat, name, args, n) == [cat |-> cat, name |-> name, args |-> args, n |-> n]

Prim(name) == Ty("primitive", name, <<>>, 0)
OptionalOf(T) == Ty("optional", "optional", <<T>>, 0)
SeqOf(kind, E) == Ty("sequential", kind, <<E>>, 0)
ArrayOf(E, N) == Ty("sequential", "array", <<E>>, N)
MapOf(K, V) == Ty("associative", "map", <<K, V>>, 0)

TBool == Prim("bool")
TInt == Prim("int")
TUInt == Prim("uint")
TLong == Prim("long")
TULong == Prim("ulong")
TChar == Prim("char")
TUInt8 == Prim("uchar")
TString == Prim("string")
\* An enum for which no Serialize/Deserialize specialization is declared,
\* and a class that has no Serialize and no Deserialize member.
TEnum == Ty("enum", "enum", <<>>, 0)
TClass == Ty("class", "class", <<>>, 0)

\* The type traits the dispatcher and the codecs test.
is_optional_type_v(T) == T.cat = "optional"
is_primitive_type_v(T) == T.cat = "primitive"
is_sequential_container_v(T) == T.cat = "sequential"
is_associative_container_v(T) == T.cat = "associative"
is_std_array_type(T) == T.cat = "sequential" /\ T.name = "array"
is_enum_v(T) == T.cat = "enum"

\* The branch of Serialize's if-constexpr chain a type takes.
SerializeCategory(T) ==
    IF is_optional_type_v(T) THEN "Optional"
    ELSE IF is_primitive_type_v(T) THEN "Primitive"
    ELSE IF is_sequential_container_v(T) THEN "SequentialContainer"
    ELSE IF is_associative_container_v(T) THEN "AssociativeContainer"
    ELSE IF is_enum_v(T) THEN "Enum"
    ELSE "Composite"

\* The chain without its associative branch.
DeserializeCategoryNoAssociative(T) ==
    IF is_optional_type_v(T) THEN "Optional"
    ELSE IF is_primitive_type_v(T) THEN "Primitive"
    ELSE IF is_sequential_container_v(T) THEN "SequentialContainer"
    ELSE IF is_enum_v(T) THEN "Enum"
    ELSE "Composite"

\* The branch of Deserialize's if-constexpr chain a type takes.
DeserializeCategory(T) ==
    IF is_optional_type_v(T) THEN "Optional"
    ELSE IF is_primitive_type_v(T) THEN "Primitive"
    ELSE IF is_sequential_container_v(T) THEN "SequentialContainer"
    ELSE IF is_associative_container_v(T) THEN "AssociativeContainer"
    ELSE IF is_enum_v(T) THEN "Enum"
    ELSE "Composite"

IsBoolType(T) == T.cat = "primitive" /\ T.name = "bool"
IsStringType(T) == T.cat = "primitive" /\ T.name = "string"
\* std::is_integral_v: bool and the character types are integral types too.
IsIntegral(T) ==
    T.cat = "primitive" /\ T.name \in {"bool", "int", "uint", "long", "ulong", "char", "uchar"}
IsSigned(T) == T.name \in {"int", "long", "char"}
IsCharType(T) == T.cat = "primitive" /\ T.name \in {"char", "uchar"}

Bits(T) ==
    CASE T.name \in {"int", "uint"} -> IntBits
      [] T.name \in {"long", "ulong"} -> LongBits
      [] T.name \in {"char", "uchar"} -> CharBits

MinOf(T) == IF IsSigned(T) THEN SignedMin(Bits(T)) ELSE 0
MaxOf(T) == IF IsSigned(T) THEN SignedMax(Bits(T)) ELSE UnsignedMax(Bits(T))

\* static_cast to an integer type of the given width: the value modulo 2^bits.
WrapTo(v, bits, signed) ==
    LET m == v % Pow2(bits)
    IN  IF signed /\ m > SignedMax(bits) THEN m - Pow2(bits) ELSE m

StaticCast(T, v) == WrapTo(v, Bits(T), IsSigned(T))

(***************************************************************************)
(* Results of the operations that can throw: st is "ok", "throw" (a        *)
(* std::invalid_argument with message err + detail) or "ill_formed" (the   *)
(* instantiation does not compile).  inner counts the calls made to the    *)
(* inner type's deserializer, elems the container elements deserialized.   *)
(***************************************************************************)
Ok(v) == [st |-> "ok", val |-> v, err |-> "", detail |-> <<>>, inner |-> 0, elems |-> 0]
Throw(err, detail) ==
    [st |-> "throw", val |-> <<>>, err |-> err, detail |-> detail, inner |-> 0, elems |-> 0]
IllFormed(why) ==
    [st |-> "ill_formed", val |-> <<>>, err |-> why, detail |-> <<>>, inner |-> 0, elems |-> 0]

(***************************************************************************)
(* Primitive codec                                                         *)
(***************************************************************************)
convert_primitive_to_string(T, value) ==
    IF IsBoolType(T) THEN
        IF value THEN <<"t", "r", "u", "e">> ELSE <<"f", "a", "l", "s", "e">>
    ELSE IF IsStringType(T) THEN value
    ELSE IF IsCharType(T) THEN <<Chr(value)>>
    ELSE IntToText(value)

\* The digits std::stoll / std::stoull / std::stoi read: leading white
\* space, an optional sign, then decimal digits up to the first other
\* character.  [ok, neg, mag]: ok is false when there is no digit.
RECURSIVE DigitsEnd(_, _)
DigitsEnd(s, i) == IF i <= Len(s) /\ IsDigit(s[i]) THEN DigitsEnd(s, i + 1) ELSE i

ScanDigits(input, neg, j, e) ==
    [ok |-> e > j, neg |-> neg, mag |-> DigitsValue(SubSeq(input, j, e - 1))]

ScanSigned(input, i) ==
    IF i <= Len(input) /\ input[i] \in {"-", "+"}
    THEN ScanDigits(input, input[i] = "-", i + 1, DigitsEnd(input, i + 1))
    ELSE ScanDigits(input, FALSE, i, DigitsEnd(input, i))

ScanInteger(input) == ScanSigned(input, SkipSpaces(input, 1))

NoNumber == [ok |-> FALSE, v |-> 0]

\* std::stoll / std::stoi for a result type of the given width: the value,
\* or an exception when nothing converts or the value is out of range.
SignedOf(r, bits) ==
    IF r.ok /\ r.neg /\ r.mag <= -SignedMin(bits) THEN [ok |-> TRUE, v |-> -r.mag]
    ELSE IF r.ok /\ ~r.neg /\ r.mag <= SignedMax(bits) THEN [ok |-> TRUE, v |-> r.mag]
    ELSE NoNumber

StoSigned(input, bits) == SignedOf(ScanInteger(input), bits)

\* std::stoull: a negative literal is negated in unsigned arithmetic.
UnsignedOf(r, bits) ==
    IF r.ok /\ r.mag <= UnsignedMax(bits)
    THEN [ok |-> TRUE, v |-> IF r.neg THEN (Pow2(bits) - r.mag) % Pow2(bits) ELSE r.mag]
    ELSE NoNumber

StoUnsigned(input, bits) == UnsignedOf(ScanInteger(input), bits)

\* The boolean a lower-cased text spells.
BoolOf(lower, input) ==
    IF lower = <<"t", "r", "u", "e">> \/ lower = <<"1">> THEN Ok(TRUE)
    ELSE IF lower = <<"f", "a", "l", "s", "e">> \/ lower = <<"0">> THEN Ok(FALSE)
    ELSE Throw("Invalid boolean value: ", input)

\* static_cast<T> of what std::sto* returned, or the exception thrown for its failure.
CastOrThrow(T, r, err, input) ==
    IF r.ok THEN Ok(StaticCast(T, r.v)) ELSE Throw(err, input)

convert_string_to_primitive(T, input) ==
    IF IsBoolType(T) THEN BoolOf(ToLower(input), input)
    ELSE IF IsStringType(T) THEN Ok(input)
    ELSE IF IsIntegral(T) THEN
        IF IsSigned(T)
        THEN CastOrThrow(T, StoSigned(input, LongBits), "Invalid integer value: ", input)
        ELSE CastOrThrow(T, StoUnsigned(input, LongBits), "Invalid integer value: ", input)
    ELSE IF IsCharType(T) THEN
        IF Len(input) = 1 THEN Ok(StaticCast(T, Ord(input[1])))
        ELSE IF Len(input) = 0 THEN Ok(0)
        ELSE CastOrThrow(T, StoSigned(input, IntBits), "Invalid character value: ", input)
    ELSE Throw("Cannot convert string to type: ", input)

(***************************************************************************)
(* Container values                                                        *)
(***************************************************************************)
\* operator< of a primitive type (the order of std::set and std::map).
ValueLess(T, a, b) ==
    IF IsBoolType(T) THEN (~a) /\ b
    ELSE IF IsStringType(T) THEN TextLess(a, b)
    ELSE a < b

\* std::set::insert: keeps the elements ascending and drops a duplicate.
SetInsert(E, c, v) ==
    IF \E i \in 1..Len(c) : c[i] = v THEN c
    ELSE LET below == Cardinality({i \in 1..Len(c) : ValueLess(E, c[i], v)})
         IN  SubSeq(c, 1, below) \o <<v>> \o SubSeq(c, below + 1, Len(c))

\* map.insert: an entry already under the key is kept.
MapAssignKeepFirst(K, m, key, value) ==
    IF \E i \in 1..Len(m) : m[i].k = key THEN m
    ELSE LET below == Cardinality({i \in 1..Len(m) : ValueLess(K, m[i].k, key)})
         IN  SubSeq(m, 1, below) \o <<[k |-> key, v |-> value]>>
                 \o SubSeq(m, below + 1, Len(m))

\* map[key] = value: overwrites the entry with that key, or inserts one in key order.
MapAssign(K, m, key, value) ==
    IF \E i \in 1..Len(m) : m[i].k = key
    THEN [i \in 1..Len(m) |-> IF m[i].k = key THEN [k |-> key, v |-> value] ELSE m[i]]
    ELSE LET below == Cardinality({i \in 1..Len(m) : ValueLess(K, m[i].k, key)})
         IN  SubSeq(m, 1, below) \o <<[k |-> key, v |-> value]>>
                 \o SubSeq(m, below + 1, Len(m))

\* A value-initialised primitive.
DefaultValue(T) ==
    IF IsBoolType(T) THEN FALSE ELSE IF IsStringType(T) THEN <<>> ELSE 0

(***************************************************************************)
(* Serialize                                                               *)
(***************************************************************************)
SerOk(text) == [st |-> "ok", text |-> text]
SerIllFormed == [st |-> "ill_formed", text |-> <<>>]

RECURSIVE Serialize(_, _)
RECURSIVE SerializeEntries(_, _, _, _)

\* The parsed node when the text parsed, else the text as a JSON string.
ParsedOrString(json, parsed) == IF parsed.ok THEN parsed.node ELSE JStr(json)

\* A non-primitive element: serialized to text, parsed, and added.
ComplexElement(elementJson) ==
    [ok |-> elementJson.st = "ok",
     node |-> ParsedOrString(elementJson.text, Parse(elementJson.text))]

\* The node array.add() stores for one element: [ok, node].
SerializeElement(E, element) ==
    IF is_primitive_type_v(E) THEN
        IF IsBoolType(E) THEN [ok |-> TRUE, node |-> JBool(element)]
        ELSE IF IsStringType(E) THEN [ok |-> TRUE, node |-> JStr(element)]
        ELSE [ok |-> TRUE, node |-> JNum(WrapTo(element, LongBits, TRUE))]
    ELSE ComplexElement(Serialize(E, element))

\* serializeJson of the array built.
ArrayText(array) ==
    IF \A i \in 1..Len(array) : array[i].ok
    THEN SerOk(Write(JArr([i \in 1..Len(array) |-> array[i].node])))
    ELSE SerIllFormed

\* The array written only when the container has elements.
serialize_sequential_containerNonEmptyOnly(T, container) ==
    IF container = <<>> THEN SerOk(<<>>)
    ELSE ArrayText([i \in 1..Len(container) |->
                       SerializeElement(T.args[1], container[i])])

serialize_sequential_container(T, container) ==
    ArrayText([i \in 1..Len(container) |-> SerializeElement(T.args[1], container[i])])

\* The key a map entry is stored under.
KeyText(K, key, keyJson) ==
    IF is_primitive_type_v(K) /\ IsStringType(K) THEN key ELSE keyJson

\* The node stored for a mapped value: the parse of its serialized text,
\* or, when that text is not JSON, the value itself by its type.
ValueNode(V, v, valueJson, valueDoc) ==
    IF valueDoc.ok THEN valueDoc.node
    ELSE IF is_primitive_type_v(V) THEN
        IF IsBoolType(V) THEN JBool(v)
        ELSE IF IsStringType(V) THEN JStr(v)
        ELSE IF IsIntegral(V) THEN JNum(WrapTo(v, LongBits, TRUE))
        ELSE JStr(valueJson)
    ELSE JStr(valueJson)

SerializeEntry(T, map, i, obj, keyJson, valueJson) ==
    IF keyJson.st = "ok" /\ valueJson.st = "ok"
    THEN SerializeEntries(T, map, i + 1,
             SetMember(obj, KeyText(T.args[1], map[i].k, keyJson.text),
                       ValueNode(T.args[2], map[i].v, valueJson.text,
                                 Parse(valueJson.text))))
    ELSE [ok |-> FALSE, members |-> obj]

\* The members of the object once the entries from position i on are written.
SerializeEntries(T, map, i, obj) ==
    IF i > Len(map) THEN [ok |-> TRUE, members |-> obj]
    ELSE SerializeEntry(T, map, i, obj,
                        Serialize(T.args[1], map[i].k), Serialize(T.args[2], map[i].v))

ObjectText(r) == IF r.ok THEN SerOk(Write(JObj(r.members))) ELSE SerIllFormed

serialize_associative_container(T, map) == ObjectText(SerializeEntries(T, map, 1, <<>>))

\* Whether Serialize<T> compiles: it instantiates Serialize for the inner
\* type of an optional, for a container's non-primitive element type, and
\* for a map's key and value types.
RECURSIVE SerializeInstantiates(_)
SerializeInstantiates(T) ==
    IF is_optional_type_v(T) THEN SerializeInstantiates(T.args[1])
    ELSE IF is_primitive_type_v(T) THEN TRUE
    ELSE IF is_sequential_container_v(T) THEN SerializeInstantiates(T.args[1])
    ELSE IF is_associative_container_v(T)
    THEN SerializeInstantiates(T.args[1]) /\ SerializeInstantiates(T.args[2])
    ELSE FALSE

\* An absent optional written as the text null.
SerializeAbsentAsNull(T, value) ==
    IF ~SerializeInstantiates(T) THEN SerIllFormed
    ELSE CASE SerializeCategory(T) = "Optional" ->
                 IF value # <<>> THEN Serialize(T.args[1], value[1])
                 ELSE SerOk(<<"n", "u", "l", "l">>)
           [] SerializeCategory(T) = "Primitive" ->
                 SerOk(convert_primitive_to_string(T, value))
           [] SerializeCategory(T) = "SequentialContainer" ->
                 serialize_sequential_container(T, value)
           [] SerializeCategory(T) = "AssociativeContainer" ->
                 serialize_associative_container(T, value)
           [] OTHER -> SerIllFormed

\* An enum written as its number instead of being rejected.
SerializeEnumAsNumber(T, value) ==
    CASE SerializeCategory(T) = "Optional" ->
            IF value # <<>> THEN Serialize(T.args[1], value[1]) ELSE SerOk(<<>>)
      [] SerializeCategory(T) = "Primitive" ->
            SerOk(convert_primitive_to_string(T, value))
      [] SerializeCategory(T) = "SequentialContainer" ->
            serialize_sequential_container(T, value)
      [] SerializeCategory(T) = "AssociativeContainer" ->
            serialize_associative_container(T, value)
      [] SerializeCategory(T) = "Enum" -> SerOk(IntToText(value))
      [] OTHER -> SerIllFormed

Serialize(T, value) ==
    IF ~SerializeInstantiates(T) THEN SerIllFormed
    ELSE CASE SerializeCategory(T) = "Optional" ->
                 IF value # <<>> THEN Serialize(T.args[1], value[1])
                 ELSE SerOk(<<>>)
           [] SerializeCategory(T) = "Primitive" ->
                 SerOk(convert_primitive_to_string(T, value))
           [] SerializeCategory(T) = "SequentialContainer" ->
                 serialize_sequential_container(T, value)
           [] SerializeCategory(T) = "AssociativeContainer" ->
                 serialize_associative_container(T, value)
           \* static_assert(std::is_enum_v<T> && false, ...)
           [] SerializeCategory(T) = "Enum" -> SerIllFormed
           \* value.Serialize(), a member the class does not have
           [] OTHER -> SerIllFormed

\* SerializeValue<T>(value): primitives, enums, and for everything else the
\* value's own Serialize member, which no container or optional has.
SerializeValue(T, value) ==
    IF is_primitive_type_v(T) THEN SerOk(convert_primitive_to_string(T, value))
    ELSE IF is_enum_v(T) THEN Serialize(T, value)
    ELSE SerIllFormed

(***************************************************************************)
(* Deserialize                                                             *)
(***************************************************************************)
\* A primitive read directly from a JSON node (an array element or a map value).
ExtractPrimitive(E, node) ==
    IF IsBoolType(E) THEN Ok(AsBoolNode(node))
    ELSE IF IsStringType(E) THEN Ok(IF AsCStrIsNull(node) THEN <<>> ELSE AsCStr(node))
    ELSE IF IsIntegral(E) THEN
        IF IsSigned(E)
        THEN Ok(StaticCast(E, AsIntNode(node, SignedMin(LongBits), SignedMax(LongBits))))
        ELSE Ok(StaticCast(E, AsIntNode(node, 0, UnsignedMax(LongBits))))
    ELSE convert_string_to_primitive(E, Write(node))

\* is<ValueType>() and as<ValueType>() on the parsed document of an optional.
DocIs(V, node) ==
    IF IsBoolType(V) THEN IsBoolNode(node) ELSE IsIntNode(node, MinOf(V), MaxOf(V))

DocAs(V, node) == IF IsBoolType(V) THEN node.b ELSE node.n

\* Whether Deserialize<T> compiles: a container calls ValueType::Deserialize
\* (KeyType::Deserialize) on every element, value or key type that is not primitive.
RECURSIVE DeserializeInstantiates(_)
DeserializeInstantiates(T) ==
    IF is_optional_type_v(T) THEN DeserializeInstantiates(T.args[1])
    ELSE IF is_primitive_type_v(T) THEN TRUE
    ELSE IF is_sequential_container_v(T) THEN is_primitive_type_v(T.args[1])
    ELSE IF is_associative_container_v(T)
    THEN is_primitive_type_v(T.args[1]) /\ is_primitive_type_v(T.args[2])
    ELSE FALSE

\* The element value of a JSON array element.
DeserializeElement(ValueType, element) ==
    IF is_primitive_type_v(ValueType) THEN ExtractPrimitive(ValueType, element)
    ELSE IllFormed("ValueType::Deserialize is not a member")

\* The container after the deserialized value d is stored: insert for a
\* set, indexing for a fixed-size array, push_back for the rest.
AddElement(T, container, index, d) ==
    IF d.st # "ok" THEN d
    ELSE IF T.name \in {"set", "unordered_set"}
    THEN Ok(SetInsert(T.args[1], container, d.val))
    ELSE IF is_std_array_type(T) THEN
        IF index < Len(container)
        THEN Ok([container EXCEPT ![index + 1] = d.val])
        ELSE Ok(container)
    ELSE Ok(Append(container, d.val))

\* One element deserialized and stored: a result whose val is the container after it.
deserialize_and_add_element(T, container, element, index) ==
    AddElement(T, container, index, DeserializeElement(T.args[1], element))

RECURSIVE DeserializeElements(_, _, _, _)

AfterElement(T, items, index, r) ==
    IF r.st # "ok" THEN [r EXCEPT !.elems = index + 1]
    ELSE DeserializeElements(T, r.val, items, index + 1)

\* The loop over the JSON array from position index (0-based) on.
DeserializeElements(T, container, items, index) ==
    IF index >= Len(items) THEN [Ok(container) EXCEPT !.elems = index]
    ELSE AfterElement(T, items, index,
             deserialize_and_add_element(T, container, items[index + 1], index))

\* A variant that accepts a JSON array longer than the array;
\* ArraySizeChecked tells it from the code.
ArraySizeMismatchShorterOnly(T, jsonArray) ==
    is_std_array_type(T) /\ Len(jsonArray) < T.n

\* A fixed-size array takes a JSON array of exactly its size.
ArraySizeMismatch(T, jsonArray) == is_std_array_type(T) /\ Len(jsonArray) # T.n

\* Container container; a std::array has its N elements from the start.
EmptyContainer(T) ==
    IF is_std_array_type(T) THEN [i \in 1..T.n |-> DefaultValue(T.args[1])] ELSE <<>>

\* The array test made before the parse error is looked at.
SequentialFromDocTypeFirst(T, input, doc) ==
    IF ~IsArrNode(doc.node) THEN Throw("Expected JSON array, got: ", input)
    ELSE IF ~doc.ok THEN Throw("Failed to parse JSON: ", input)
    ELSE IF ArraySizeMismatch(T, doc.node.items)
    THEN Throw("JSON array size does not match Array size: ",
               IntToText(Len(doc.node.items)) \o <<" ">> \o IntToText(T.n))
    ELSE DeserializeElements(T, EmptyContainer(T), doc.node.items, 0)

SequentialFromDoc(T, input, doc) ==
    IF ~doc.ok THEN Throw("Failed to parse JSON: ", input)
    ELSE IF ~IsArrNode(doc.node) THEN Throw("Expected JSON array, got: ", input)
    ELSE IF ArraySizeMismatch(T, doc.node.items)
    THEN Throw("JSON array size does not match Array size: ",
               IntToText(Len(doc.node.items)) \o <<" ">> \o IntToText(T.n))
    ELSE DeserializeElements(T, EmptyContainer(T), doc.node.items, 0)

deserialize_sequential_container(T, input) == SequentialFromDoc(T, input, Parse(input))

\* The key of a JSON object member.
DeserializeKey(KeyType, k) ==
    IF is_primitive_type_v(KeyType) THEN
        IF IsStringType(KeyType) THEN Ok(k)
        ELSE convert_string_to_primitive(KeyType, k)
    ELSE IllFormed("KeyType::Deserialize is not a member")

RECURSIVE DeserializeEntries(_, _, _, _)

\* map[key] = value, once both are deserialized.
AfterEntry(T, map, members, i, key, value) ==
    IF key.st # "ok" THEN [key EXCEPT !.elems = i]
    ELSE IF value.st # "ok" THEN [value EXCEPT !.elems = i]
    ELSE DeserializeEntries(T, MapAssign(T.args[1], map, key.val, value.val),
                            members, i + 1)

\* The loop over the JSON object's members from position i on.
DeserializeEntries(T, map, members, i) ==
    IF i > Len(members) THEN [Ok(map) EXCEPT !.elems = Len(members)]
    ELSE AfterEntry(T, map, members, i,
                    DeserializeKey(T.args[1], members[i].k),
                    DeserializeElement(T.args[2], members[i].v))

AssociativeFromDoc(T, input, doc) ==
    IF ~doc.ok THEN Throw("Failed to parse JSON: ", input)
    ELSE IF ~IsObjNode(doc.node) THEN Throw("Expected JSON object, got: ", input)
    ELSE DeserializeEntries(T, <<>>, doc.node.items, 1)

deserialize_associative_container(T, input) == AssociativeFromDoc(T, input, Parse(input))

\* A variant that parses the text "{}" like any other; OptionalAbsentInputs
\* tells it from the code.
OptionalInputIsAbsentNoBraces(input) ==
    input = <<>> \/ input = <<"n", "u", "l", "l">>

\* The texts an optional reads as absent without parsing them.
OptionalInputIsAbsent(input) ==
    input = <<>> \/ input = <<"n", "u", "l", "l">> \/ input = <<"{", "}">>

\* The result of a call to the inner type's Deserialize.
Called(r) == [r EXCEPT !.inner = 1]

\* ReturnType(value), or the exception the inner Deserialize threw.
Present(r) == IF r.st = "ok" THEN [r EXCEPT !.val = <<r.val>>] ELSE r

RECURSIVE Deserialize(_, _)

\* A text that does not parse taken as absent.
OptionalFromDocAbsentOnParseError(ValueType, input, doc) ==
    IF ~doc.ok \/ IsNullNode(doc.node) THEN Ok(<<>>)
    ELSE IF is_primitive_type_v(ValueType) THEN
        IF IsStringType(ValueType) THEN
            IF IsStrNode(doc.node) THEN Present(Ok(AsCStr(doc.node)))
            ELSE Present(Called(Deserialize(ValueType, input)))
        ELSE IF DocIs(ValueType, doc.node)
        THEN Present(Ok(DocAs(ValueType, doc.node)))
        ELSE Present(Called(Deserialize(ValueType, input)))
    ELSE Present(Called(Deserialize(ValueType, Write(doc.node))))

\* An optional from a text that is not one of the absent literals, doc being its parse.
OptionalFromDoc(ValueType, input, doc) ==
    IF doc.ok /\ IsNullNode(doc.node) THEN Ok(<<>>)
    ELSE IF doc.ok THEN
        IF is_primitive_type_v(ValueType) THEN
            IF IsStringType(ValueType) THEN
                IF IsStrNode(doc.node) THEN Present(Ok(AsCStr(doc.node)))
                ELSE Present(Called(Deserialize(ValueType, input)))
            ELSE IF DocIs(ValueType, doc.node)
            THEN Present(Ok(DocAs(ValueType, doc.node)))
            ELSE Present(Called(Deserialize(ValueType, input)))
        ELSE Present(Called(Deserialize(ValueType, Write(doc.node))))
    ELSE Present(Called(Deserialize(ValueType, input)))

Deserialize(T, input) ==
    IF ~DeserializeInstantiates(T) THEN IllFormed("no Deserialize for the type")
    ELSE CASE DeserializeCategory(T) = "Optional" ->
                 IF OptionalInputIsAbsent(input) THEN Ok(<<>>)
                 ELSE OptionalFromDoc(T.args[1], input, Parse(input))
           [] DeserializeCategory(T) = "Primitive" ->
                 convert_string_to_primitive(T, input)
           [] DeserializeCategory(T) = "SequentialContainer" ->
                 deserialize_sequential_container(T, input)
           [] DeserializeCategory(T) = "AssociativeContainer" ->
                 deserialize_associative_container(T, input)
           \* static_assert(std::is_enum_v<ReturnType> && false, ...)
           [] DeserializeCategory(T) = "Enum" ->
                 IllFormed("Enum deserialization specialization not found")
           \* ReturnType::Deserialize(input), a member the class does not have
           [] OTHER -> IllFormed("no Deserialize for the type")

\* DeserializeValue<ReturnType>(input): primitives, enums and containers,
\* and for everything else the type's own static Deserialize member, which
\* no optional has.
DeserializeValue(T, input) ==
    IF is_primitive_type_v(T) THEN convert_string_to_primitive(T, input)
    ELSE IF is_enum_v(T) THEN Deserialize(T, input)
    ELSE IF is_sequential_container_v(T) \/ is_associative_container_v(T)
    THEN Deserialize(T, input)
    ELSE IllFormed("no Deserialize for the type")

(***************************************************************************)
(* ValidationUtility                                                       *)
(* A validator reads one field of the document and may append one message  *)
(* to the caller's log.  Its outcome is [out, ret, errors]: out is          *)
(* "return", or what a call with undefined behaviour ends in; ret is the    *)
(* boolean returned; errors is the log afterwards.                         *)
(***************************************************************************)
Separator == <<",", "\n">>
NotNullPrefix == 
    <<"N", "o", "t", "N", "u", "l", "l", " ", "f", "i", "e", "l", "d",
      " ", "'">>
NotBlankPrefix == 
    <<"N", "o", "t", "B", "l", "a", "n", "k", " ", "f", "i", "e", "l",
      "d", " ", "'">>
NotEmptyPrefix == 
    <<"N", "o", "t", "E", "m", "p", "t", "y", " ", "f", "i", "e", "l",
      "d", " ", "'">>
NullOrMissingSuffix == 
    <<"'", " ", "i", "s", " ", "r", "e", "q", "u", "i", "r", "e", "d",
      " ", "b", "u", "t", " ", "w", "a", "s", " ", "n", "u", "l", "l",
      " ", "o", "r", " ", "m", "i", "s", "s", "i", "n", "g">>
BlankSuffix == 
    <<"'", " ", "c", "a", "n", "n", "o", "t", " ", "b", "e", " ", "e",
      "m", "p", "t", "y", " ", "o", "r", " ", "b", "l", "a", "n", "k">>
EmptySuffix == 
    <<"'", " ", "c", "a", "n", "n", "o", "t", " ", "b", "e", " ", "e",
      "m", "p", "t", "y">>
EmptyArraySuffix == 
    <<"'", " ", "(", "a", "r", "r", "a", "y", "/", "c", "o", "l", "l",
      "e", "c", "t", "i", "o", "n", ")", " ", "c", "a", "n", "n", "o",
      "t", " ", "b", "e", " ", "e", "m", "p", "t", "y">>
EmptyMapSuffix == 
    <<"'", " ", "(", "m", "a", "p", ")", " ", "c", "a", "n", "n", "o",
      "t", " ", "b", "e", " ", "e", "m", "p", "t", "y">>

\* A variant that assigns the message to the log; LogAppendOnly tells it
\* from the code.
AppendErrorOverwrite(validationErrors, message) == message

\* A variant that writes the separator before every message;
\* LogIsFailedMessages tells it from the code.
AppendErrorAlwaysSeparated(validationErrors, message) ==
    validationErrors \o Separator \o message

\* if (!validationErrors.empty()) validationErrors += ",\n"; validationErrors += ...
AppendError(validationErrors, message) ==
    IF validationErrors # <<>>
    THEN validationErrors \o Separator \o message
    ELSE message

Passed(validationErrors) ==
    [out |-> "return", ret |-> TRUE, errors |-> validationErrors]

Failed(validationErrors) ==
    [out |-> "return", ret |-> FALSE, errors |-> validationErrors]

\* What constructing a std::string from a null pointer ends in: libstdc++
\* throws std::logic_error, other libraries read through the pointer and
\* the process is killed.  Neither returns, neither touches the log.
UndefinedOutcomes == {"logic_error", "crash"}

Undefined(validationErrors, ub) ==
    [out |-> ub, ret |-> FALSE, errors |-> validationErrors]

\* A variant that also rejects 0, false and the empty string;
\* NotNullContract tells it from the code.
ValidateNotNullFalsy(doc, fieldName, validationErrors) ==
    IF \/ IsNullNode(Member(doc, fieldName))
       \/ Member(doc, fieldName) \in {JNum(0), JBool(FALSE), JStr(<<>>)}
    THEN Failed(AppendError(validationErrors,
                            NotNullPrefix \o fieldName \o NullOrMissingSuffix))
    ELSE Passed(validationErrors)

ValidateNotNull(doc, fieldName, validationErrors) ==
    IF IsNullNode(Member(doc, fieldName))
    THEN Failed(AppendError(validationErrors,
                            NotNullPrefix \o fieldName \o NullOrMissingSuffix))
    ELSE Passed(validationErrors)

TrimChars == {" ", "\t", "\n", "\r"}

\* find_first_not_of(" \t\n\r") from position i; Len(s) + 1 stands for npos.
RECURSIVE FindFirstNotOf(_, _)
FindFirstNotOf(s, i) ==
    IF i <= Len(s) /\ s[i] \in TrimChars THEN FindFirstNotOf(s, i + 1) ELSE i

\* find_last_not_of(" \t\n\r") from position i down; 0 stands for npos.
RECURSIVE FindLastNotOf(_, _)
FindLastNotOf(s, i) ==
    IF i >= 1 /\ s[i] \in TrimChars THEN FindLastNotOf(s, i - 1) ELSE i

TrimLeading(s, start) ==
    IF start <= Len(s) THEN SubSeq(s, start, Len(s)) ELSE <<>>

TrimTrailing(s) ==
    IF s = <<>> THEN s
    ELSE IF FindLastNotOf(s, Len(s)) >= 1
    THEN SubSeq(s, 1, FindLastNotOf(s, Len(s)))
    ELSE <<>>

\* A variant that trims nothing, so that only the empty string is blank;
\* NotBlankContract tells it from the code.
TrimmedNothing(fieldValue) == fieldValue

Trimmed(fieldValue) ==
    TrimTrailing(TrimLeading(fieldValue, FindFirstNotOf(fieldValue, 1)))

\* A variant that reports a null field in the words of ValidateNotNull;
\* NullFieldOwnConstraintName tells it from the code.
ValidateNotBlankAsNotNull(doc, fieldName, validationErrors, ub) ==
    IF IsNullNode(Member(doc, fieldName))
    THEN ValidateNotNull(doc, fieldName, validationErrors)
    ELSE IF AsCStrIsNull(Member(doc, fieldName))
    THEN Undefined(validationErrors, ub)
    ELSE IF Trimmed(AsCStr(Member(doc, fieldName))) = <<>>
    THEN Failed(AppendError(validationErrors,
                            NotBlankPrefix \o fieldName \o BlankSuffix))
    ELSE Passed(validationErrors)

ValidateNotBlank(doc, fieldName, validationErrors, ub) ==
    IF IsNullNode(Member(doc, fieldName))
    THEN Failed(AppendError(validationErrors,
                            NotBlankPrefix \o fieldName \o NullOrMissingSuffix))
    ELSE IF AsCStrIsNull(Member(doc, fieldName))
    THEN Undefined(validationErrors, ub)
    ELSE IF Trimmed(AsCStr(Member(doc, fieldName))) = <<>>
    THEN Failed(AppendError(validationErrors,
                            NotBlankPrefix \o fieldName \o BlankSuffix))
    ELSE Passed(validationErrors)

\* A variant that takes an all-whitespace string for an empty one;
\* NotEmptyContract tells it from the code.
ValidateNotEmptyTrimmed(doc, fieldName, validationErrors) ==
    IF IsNullNode(Member(doc, fieldName))
    THEN Failed(AppendError(validationErrors,
                            NotEmptyPrefix \o fieldName \o NullOrMissingSuffix))
    ELSE IF IsStrNode(Member(doc, fieldName)) THEN
        IF Trimmed(AsCStr(Member(doc, fieldName))) = <<>>
        THEN Failed(AppendError(validationErrors,
                                NotEmptyPrefix \o fieldName \o EmptySuffix))
        ELSE Passed(validationErrors)
    ELSE IF IsArrNode(Member(doc, fieldName)) THEN
        IF Len(Member(doc, fieldName).items) = 0
        THEN Failed(AppendError(validationErrors,
                                NotEmptyPrefix \o fieldName \o EmptyArraySuffix))
        ELSE Passed(validationErrors)
    ELSE IF IsObjNode(Member(doc, fieldName)) THEN
        IF Len(Member(doc, fieldName).items) = 0
        THEN Failed(AppendError(validationErrors,
                                NotEmptyPrefix \o fieldName \o EmptyMapSuffix))
        ELSE Passed(validationErrors)
    ELSE Passed(validationErrors)

ValidateNotEmpty(doc, fieldName, validationErrors) ==
    IF IsNullNode(Member(doc, fieldName))
    THEN Failed(AppendError(validationErrors,
                            NotEmptyPrefix \o fieldName \o NullOrMissingSuffix))
    ELSE IF IsStrNode(Member(doc, fieldName)) THEN
        IF AsCStr(Member(doc, fieldName)) = <<>>
        THEN Failed(AppendError(validationErrors,
                                NotEmptyPrefix \o fieldName \o EmptySuffix))
        ELSE Passed(validationErrors)
    ELSE IF IsArrNode(Member(doc, fieldName)) THEN
        IF Len(Member(doc, fieldName).items) = 0
        THEN Failed(AppendError(validationErrors,
                                NotEmptyPrefix \o fieldName \o EmptyArraySuffix))
        ELSE Passed(validationErrors)
    ELSE IF IsObjNode(Member(doc, fieldName)) THEN
        IF Len(Member(doc, fieldName).items) = 0
        THEN Failed(AppendError(validationErrors,
                                NotEmptyPrefix \o fieldName \o EmptyMapSuffix))
        ELSE Passed(validationErrors)
    ELSE Passed(validationErrors)

(***************************************************************************)
(* The calls of the serializer.  A caller serializes a value, may hand     *)
(* the text back to Deserialize for the same type (a round trip), or       *)
(* deserializes a text of its own.                                         *)
(***************************************************************************)
VARIABLES
    op,         \* the last call: "idle", "Serialize" or "Deserialize"
    ty,         \* the type the call was made for
    value,      \* the value given to Serialize
    text,       \* the text Serialize returned, or Deserialize was given
    result,     \* what Deserialize returned or threw
    roundTrip   \* whether text is Serialize's output for value

VARIABLES
    doc,                \* the parsed document the validators read
    validationErrors,   \* the caller's error log
    calls               \* the validator calls made, in order

vars == <<op, ty, value, text, result, roundTrip, doc, validationErrors, calls>>

BoundedSeq(S, n) == UNION {[1..k -> S] : k \in 0..n}

StringValues ==
    { <<>>,
      <<"a">>,
      <<"1", "2", "3">>,
      <<"t", "r", "u", "e">>,
      <<"n", "u", "l", "l">>,
      <<"[", "1", "]">>,
      <<"{", "}">>,
      <<"\"", "a", "\"">>,
      <<" ">> }

ElemStrings ==
    { <<>>,
      <<"a">>,
      <<"1", "2", "3">>,
      <<"t", "r", "u", "e">>,
      <<"n", "u", "l", "l">> }

CharValues == {Ord("a"), Ord("5"), Ord(" ")}

\* The values of a primitive type tried as a value on its own.
PrimValues(T) ==
    IF IsBoolType(T) THEN BOOLEAN
    ELSE IF IsStringType(T) THEN StringValues
    ELSE IF IsCharType(T) THEN CharValues
    ELSE {MinOf(T), 0, 1, 5, SignedMax(Bits(T)), MaxOf(T)}
             \cup (IF IsSigned(T) THEN {-1, -12} ELSE {SignedMax(Bits(T)) + 1})

\* The values of a primitive type tried as an element, a key or a mapped value.
ElemValues(T) ==
    IF is_optional_type_v(T) THEN {<<>>} \cup {<<v>> : v \in ElemStrings}
    ELSE IF is_sequential_container_v(T) THEN {<<>>, <<1>>, <<0, 1>>}
    ELSE IF is_enum_v(T) \/ T.cat = "class" THEN {0, 1}
    ELSE IF IsBoolType(T) THEN BOOLEAN
    ELSE IF IsStringType(T) THEN ElemStrings
    ELSE IF IsCharType(T) THEN CharValues
    ELSE {MinOf(T), 0, 1, MaxOf(T)}

KeyValues(T) ==
    IF IsStringType(T) THEN {<<"a">>, <<"b">>, <<"k">>} ELSE {-1, 1, 2}

\* The values tried for a type.  A set or a map is held in ascending
\* order of its elements or keys, as std::set and std::map keep it.
RECURSIVE Values(_)
Values(T) ==
    IF is_optional_type_v(T) THEN {<<>>} \cup {<<v>> : v \in Values(T.args[1])}
    ELSE IF is_primitive_type_v(T) THEN PrimValues(T)
    ELSE IF is_enum_v(T) \/ T.cat = "class" THEN ElemValues(T)
    ELSE IF is_std_array_type(T) THEN [1..T.n -> ElemValues(T.args[1])]
    ELSE IF T.name = "set"
    THEN {c \in BoundedSeq(ElemValues(T.args[1]), MaxElems) :
             \A i \in 1..(Len(c) - 1) : ValueLess(T.args[1], c[i], c[i + 1])}
    ELSE IF is_sequential_container_v(T)
    THEN BoundedSeq(ElemValues(T.args[1]), MaxElems)
    ELSE {m \in BoundedSeq([k : KeyValues(T.args[1]), v : ElemValues(T.args[2])],
                           MaxElems) :
             \A i \in 1..(Len(m) - 1) : ValueLess(T.args[1], m[i].k, m[i + 1].k)}

\* The types Serialize and Deserialize are called for.
Types ==
    {TBool, TInt, TUInt, TLong, TULong, TChar, TUInt8, TString}
        \cup {SeqOf(kind, E) : kind \in {"vector", "list", "deque", "set"},
                               E \in {TBool, TInt, TULong, TChar, TString}}
        \cup {ArrayOf(E, n) : E \in {TInt, TString}, n \in 0..MaxElems}
        \cup {MapOf(K, V) : K \in {TString, TInt}, V \in {TBool, TInt, TString}}
        \cup {OptionalOf(T) : T \in {TBool, TInt, TULong, TString,
                                     SeqOf("vector", TInt), MapOf(TString, TInt),
                                     OptionalOf(TString)}}
        \cup {TEnum, TClass, SeqOf("vector", TEnum), MapOf(TString, TEnum),
              SeqOf("vector", OptionalOf(TString)),
              MapOf(TString, OptionalOf(TString)),
              SeqOf("vector", SeqOf("vector", TInt)),
              MapOf(TString, SeqOf("vector", TInt))}

\* The texts a caller hands to Deserialize on its own.
InputTexts ==
    { <<>>,
      <<"n", "u", "l", "l">>,
      <<"{", "}">>,
      <<" ", "n", "u", "l", "l">>,
      <<"n", "u", "l", "l", " ">>,
      <<"n", "u", "l">>,
      <<"a">>,
      <<"5">>,
      <<"-", "1">>,
      <<"1", "2", "a", "b", "c">>,
      <<"6", "0", "0">>,
      <<"t", "r", "u", "e">>,
      <<"T", "R", "U", "E">>,
      <<"F", "a", "L", "s", "E">>,
      <<"0">>,
      <<" ", "t", "r", "u", "e">>,
      <<"\"", "a", "\"">>,
      <<"[", "]">>,
      <<"[", "1", "]">>,
      <<"[", "[", "1", "]", "]">>,
      <<"[", "1", ",", "2", "]">>,
      <<"[", "1", ",", "2", ",", "3", "]">>,
      <<"[", "\"", "a", "\"", "]">>,
      <<"[", "n", "u", "l", "l", "]">>,
      <<"{", "\"", "a", "\"", ":", "1", "}">>,
      <<"{", "\"", "a", "\"", ":", "1", ",", "\"", "a", "\"", ":", "2", "}">>,
      <<"{", "\"", "1", "\"", ":", "t", "r", "u", "e", "}">>,
      <<"{", "\"", "1", "\"", ":", "t", "r", "u", "e", ",",
        "\"", "0", "1", "\"", ":", "f", "a", "l", "s", "e", "}">>,
      <<"[", "1">>,
      <<" ">> }

SerInit ==
    /\ op = "idle"
    /\ ty = TBool
    /\ value = <<>>
    /\ text = <<>>
    /\ result = Ok(<<>>)
    /\ roundTrip = FALSE

\* Serialize<T>(v)
SerializeCall ==
    /\ op = "idle"
    /\ \E T \in Types : \E v \in Values(T) :
        /\ op' = "Serialize"
        /\ ty' = T
        /\ value' = v
        /\ text' = Serialize(T, v).text
        /\ result' = [Ok(<<>>) EXCEPT !.st = Serialize(T, v).st]
        /\ roundTrip' = FALSE
    /\ UNCHANGED <<doc, validationErrors, calls>>

\* SerializeValue<T>(v)
SerializeValueCall ==
    /\ op = "idle"
    /\ \E T \in Types : \E v \in Values(T) :
        /\ op' = "SerializeValue"
        /\ ty' = T
        /\ value' = v
        /\ text' = SerializeValue(T, v).text
        /\ result' = [Ok(<<>>) EXCEPT !.st = SerializeValue(T, v).st]
        /\ roundTrip' = FALSE
    /\ UNCHANGED <<doc, validationErrors, calls>>

\* Deserialize<T>(Serialize(v))
DeserializeBack ==
    /\ op = "Serialize"
    /\ result.st = "ok"
    /\ op' = "Deserialize"
    /\ result' = Deserialize(ty, text)
    /\ roundTrip' = TRUE
    /\ UNCHANGED <<ty, value, text>>
    /\ UNCHANGED <<doc, validationErrors, calls>>

\* Deserialize<T>(input)
DeserializeCall ==
    /\ op = "idle"
    /\ \E T \in Types : \E input \in InputTexts :
        /\ op' = "Deserialize"
        /\ ty' = T
        /\ value' = <<>>
        /\ text' = input
        /\ result' = Deserialize(T, input)
        /\ roundTrip' = FALSE
    /\ UNCHANGED <<doc, validationErrors, calls>>

\* DeserializeValue<T>(input)
DeserializeValueCall ==
    /\ op = "idle"
    /\ \E T \in Types : \E input \in InputTexts :
        /\ op' = "DeserializeValue"
        /\ ty' = T
        /\ value' = <<>>
        /\ text' = input
        /\ result' = DeserializeValue(T, input)
        /\ roundTrip' = FALSE
    /\ UNCHANGED <<doc, validationErrors, calls>>

\* The call's result is consumed; the utility keeps no state between calls.
Return ==
    /\ op # "idle"
    /\ op' = "idle"
    /\ ty' = TBool
    /\ value' = <<>>
    /\ text' = <<>>
    /\ result' = Ok(<<>>)
    /\ roundTrip' = FALSE
    /\ UNCHANGED <<doc, validationErrors, calls>>

(***************************************************************************)
(* The calls of the validators.  A caller parses a document, then calls    *)
(* validators on its fields with one log shared by the calls.              *)
(***************************************************************************)
MaxCalls == 2

\* {"n":null,"s":"a","p":" a ","w":"a b","b":" \t\n\r","e":"","z":0,
\*  "f":false,"a":[1],"r":[],"o":{"k":1},"m":{}}
DocumentText ==
    <<"{", "\"", "n", "\"", ":", "n", "u", "l", "l", ",", "\"", "s", "\"",
      ":", "\"", "a", "\"", ",", "\"", "p", "\"", ":", "\"", " ", "a",
      " ", "\"", ",", "\"", "w", "\"", ":", "\"", "a", " ", "b", "\"",
      ",", "\"", "b", "\"", ":", "\"", " ", "\\", "t", "\\", "n", "\\",
      "r", "\"", ",", "\"", "e", "\"", ":", "\"", "\"", ",", "\"", "z",
      "\"", ":", "0", ",", "\"", "f", "\"", ":", "f", "a", "l", "s", "e",
      ",", "\"", "a", "\"", ":", "[", "1", "]", ",", "\"", "r", "\"", ":",
      "[", "]", ",", "\"", "o", "\"", ":", "{", "\"", "k", "\"", ":", "1",
      "}", ",", "\"", "m", "\"", ":", "{", "}", "}">>

\* The document parsed from the text, and a document that holds nothing.
Documents == {Parse(DocumentText).node, JNull}

\* The fields of the document, and "x", which it does not have.
FieldNames ==
    { <<"n">>, <<"s">>, <<"p">>, <<"w">>, <<"b">>, <<"e">>, <<"z">>, <<"f">>,
      <<"a">>, <<"r">>, <<"o">>, <<"m">>, <<"x">> }

\* What the caller's log holds before the first call.
InitialLogs == {<<>>, <<"o", "l", "d", " ", "e", "r", "r", "o", "r">>}

\* The process is alive and the caller has calls left to make.
CanCall ==
    /\ Len(calls) < MaxCalls
    /\ \A i \in 1..Len(calls) : calls[i].out # "crash"

\* The call recorded, and the log as the call left it.
RecordCall(name, fieldName, r) ==
    /\ validationErrors' = r.errors
    /\ calls' = Append(calls, [name |-> name, field |-> fieldName, out |-> r.out,
                               ret |-> r.ret, before |-> validationErrors,
                               after |-> r.errors])
    /\ UNCHANGED doc
    /\ UNCHANGED <<op, ty, value, text, result, roundTrip>>

ValidateNotNullCall ==
    /\ CanCall
    /\ \E fieldName \in FieldNames :
        RecordCall("NotNull", fieldName, ValidateNotNull(doc, fieldName, validationErrors))

ValidateNotBlankCall ==
    /\ CanCall
    /\ \E fieldName \in FieldNames : \E ub \in UndefinedOutcomes :
        RecordCall("NotBlank", fieldName,
                ValidateNotBlank(doc, fieldName, validationErrors, ub))

ValidateNotEmptyCall ==
    /\ CanCall
    /\ \E fieldName \in FieldNames :
        RecordCall("NotEmpty", fieldName, ValidateNotEmpty(doc, fieldName, validationErrors))

ValidationInit ==
    /\ SerInit
    /\ doc \in Documents
    /\ validationErrors \in InitialLogs
    /\ calls = <<>>

ValidationNext == ValidateNotNullCall \/ ValidateNotBlankCall \/ ValidateNotEmptyCall

ValidationSpec == ValidationInit /\ [][ValidationNext]_vars

Init ==
    /\ SerInit
    /\ doc = JNull
    /\ validationErrors = <<>>
    /\ calls = <<>>

Next ==
    \/ SerializeCall
    \/ DeserializeBack
    \/ DeserializeCall
    \/ SerializeValueCall
    \/ DeserializeValueCall
    \/ Return

Spec == Init /\ [][Next]_vars

(***************************************************************************)
(* Properties of the serializer                                            *)
(***************************************************************************)
IsPrefix(a, b) == Len(a) <= Len(b) /\ SubSeq(b, 1, Len(a)) = a

\* Whether text w occurs in text s.
Contains(s, w) == \E i \in 1..(Len(s) - Len(w) + 1) : SubSeq(s, i, i + Len(w) - 1) = w

\* The elements of a sequence with their multiplicities.
Multiset(c) ==
    [e \in {c[i] : i \in 1..Len(c)} |-> Cardinality({i \in 1..Len(c) : c[i] = e})]

\* A Deserialize of what Serialize returned for value has returned.
RoundTripDone == op = "Deserialize" /\ roundTrip

\* C1: for every primitive type T and every value x of T,
\* Deserialize<T>(Serialize(x)) returns x and raises no error, the
\* character types included.
PrimitiveRoundTrip ==
    (RoundTripDone /\ is_primitive_type_v(ty)) =>
        (result.st = "ok" /\ result.val = value)

\* C2: for every map m with primitive keys and values,
\* Deserialize<M>(Serialize(m)) holds exactly the key-value pairs of m,
\* also when a string value's text is itself a JSON literal.
AssociativeRoundTrip ==
    (/\ RoundTripDone
     /\ is_associative_container_v(ty)
     /\ is_primitive_type_v(ty.args[1])
     /\ is_primitive_type_v(ty.args[2])) =>
        /\ result.st = "ok"
        /\ {result.val[i] : i \in 1..Len(result.val)} = {value[i] : i \in 1..Len(value)}
        /\ Len(result.val) = Len(value)

\* C3: for every sequential container c of primitive elements,
\* Deserialize<C>(Serialize(c)) has the elements of c with their
\* multiplicities, and in the same order for vector, list, deque and array.
SequentialRoundTrip ==
    (/\ RoundTripDone
     /\ is_sequential_container_v(ty)
     /\ is_primitive_type_v(ty.args[1])) =>
        /\ result.st = "ok"
        /\ Multiset(result.val) = Multiset(value)
        /\ ty.name \in {"vector", "list", "deque", "array"} => result.val = value

\* C4: for every optional value v, absent or present,
\* Deserialize<Optional<T>>(Serialize(v)) = v; a present value stays present.
OptionalRoundTrip ==
    (RoundTripDone /\ is_optional_type_v(ty)) =>
        (result.st = "ok" /\ result.val = value)

\* The text parses, and to a JSON null.
ParsesToNull(input) == Parse(input).ok /\ Parse(input).node.t = "null"

\* C5: Deserialize<Optional<T>> of the empty text, of "null", of "{}" or of
\* a text that parses to JSON null returns an absent optional and does not
\* call the inner type's Deserialize.
OptionalAbsentInputs ==
    (/\ op = "Deserialize"
     /\ is_optional_type_v(ty)
     /\ \/ text \in {<<>>, <<"n", "u", "l", "l">>, <<"{", "}">>}
        \/ ParsesToNull(text)) =>
        (result.st = "ok" /\ result.val = <<>> /\ result.inner = 0)

OptionalAbsentInputsWitness ==
    /\ op = "Deserialize"
    /\ ty = OptionalOf(TInt)
    /\ text = <<" ", "n", "u", "l", "l">>
    /\ result.st = "ok"
    /\ result.val = <<>>

\* The text parses to a JSON array of n elements.
ParsesToArrayOf(input, n) ==
    /\ Parse(input).ok
    /\ Parse(input).node.t = "arr"
    /\ Len(Parse(input).node.items) = n

\* C6: Deserialize of a fixed-size array of size N from a JSON array of
\* another length, shorter or longer, throws the size-mismatch error
\* before any element is deserialized; no array is returned.
ArraySizeChecked ==
    (/\ op = "Deserialize"
     /\ ty.name = "array"
     /\ \E n \in 0..(MaxElems + 2) : n # ty.n /\ ParsesToArrayOf(text, n)) =>
        /\ result.st = "throw"
        /\ result.err = "JSON array size does not match Array size: "
        /\ result.elems = 0

ArraySizeCheckedWitness ==
    /\ op = "Deserialize"
    /\ ty = ArrayOf(TInt, 2)
    /\ text = <<"[", "1", ",", "2", ",", "3", "]">>
    /\ result.st = "throw"

(***************************************************************************)
(* Properties of the validators                                            *)
(***************************************************************************)
CommaNewline == <<",", "\n">>
FieldOpen == <<" ", "f", "i", "e", "l", "d", " ", "'">>
RequiredClose ==
    <<"'", " ", "i", "s", " ", "r", "e", "q", "u", "i", "r", "e", "d",
      " ", "b", "u", "t", " ", "w", "a", "s", " ", "n", "u", "l", "l",
      " ", "o", "r", " ", "m", "i", "s", "s", "i", "n", "g">>

\* "<constraint> field '<field>' is required but was null or missing"
RequiredMessage(constraint, fieldName) ==
    constraint \o FieldOpen \o fieldName \o RequiredClose

\* The field is not in the document, or its value is JSON null.
NullOrMissing(d, fieldName) ==
    \/ d.t # "obj"
    \/ \A i \in 1..Len(d.items) : d.items[i].k = fieldName => d.items[i].v.t = "null"

\* The log with one more message: after the separator when the log holds text.
WithMessage(log, message) ==
    IF log = <<>> THEN message ELSE log \o CommaNewline \o message

\* C7: the log before a validator call is a prefix of the log after it.
LogAppendOnly == [][IsPrefix(validationErrors, validationErrors')]_vars

LogAppendOnlyWitness ==
    /\ Len(calls) = 2
    /\ calls[2].before # <<>>
    /\ calls[2].out = "return"
    /\ ~calls[2].ret
    /\ validationErrors # calls[2].before

\* The call returned false.
ReturnedFalse(c) == c.out = "return" /\ ~c.ret

\* The message of a call: what its validator appends to an empty log.
MessageOf(c) ==
    CASE c.name = "NotNull" -> ValidateNotNull(doc, c.field, <<>>).errors
      [] c.name = "NotBlank" -> ValidateNotBlank(doc, c.field, <<>>, "logic_error").errors
      [] c.name = "NotEmpty" -> ValidateNotEmpty(doc, c.field, <<>>).errors

RECURSIVE JoinMessages(_)
JoinMessages(cs) ==
    IF cs = <<>> THEN <<>>
    ELSE IF Len(cs) = 1 THEN MessageOf(cs[1])
    ELSE MessageOf(cs[1]) \o CommaNewline \o JoinMessages(Tail(cs))

\* The text the call added to the log, the separator before it taken off.
Added(c) ==
    IF c.before = <<>> THEN c.after
    ELSE SubSeq(c.after, Len(c.before) + Len(CommaNewline) + 1, Len(c.after))

\* The call appended exactly one message.
AppendedOneMessage(c) ==
    /\ Added(c) # <<>>
    /\ ~Contains(Added(c), CommaNewline)
    /\ c.after = WithMessage(c.before, Added(c))

\* The log held nothing before the first call.
StartedEmpty ==
    IF calls = <<>> THEN validationErrors = <<>> ELSE calls[1].before = <<>>

\* C8: from an empty log, the log is the messages of the calls that
\* returned false, in call order, joined by ",\n" with no separator at
\* either end; a call returns false iff it appended exactly one message,
\* and a call that returns true leaves the log as it was.
LogIsFailedMessages ==
    StartedEmpty =>
        /\ validationErrors = JoinMessages(SelectSeq(calls, ReturnedFalse))
        /\ \A i \in 1..Len(calls) :
            /\ ReturnedFalse(calls[i]) <=> AppendedOneMessage(calls[i])
            /\ ~ReturnedFalse(calls[i]) => calls[i].after = calls[i].before

LogIsFailedMessagesWitness ==
    /\ Len(calls) = 2
    /\ calls[1].before = <<>>
    /\ calls[1].name = "NotEmpty"
    /\ calls[2].name = "NotBlank"
    /\ ReturnedFalse(calls[1])
    /\ ReturnedFalse(calls[2])
    /\ Contains(validationErrors, CommaNewline)

\* C9: ValidateNotNull returns false iff the field is JSON null or
\* missing, and then appends "NotNull field '<field>' is required but was
\* null or missing"; for every present non-null value, 0, false and ""
\* included, it returns true and appends nothing.
NotNullContract ==
    \A i \in 1..Len(calls) :
        calls[i].name = "NotNull" =>
            /\ calls[i].out = "return"
            /\ calls[i].ret <=> ~NullOrMissing(doc, calls[i].field)
            /\ ~calls[i].ret =>
                   calls[i].after =
                       WithMessage(calls[i].before,
                                   RequiredMessage(<<"N", "o", "t", "N", "u", "l", "l">>,
                                                   calls[i].field))
            /\ calls[i].ret => calls[i].after = calls[i].before

NotNullContractWitness ==
    /\ doc.t = "obj"
    /\ Len(calls) = 2
    /\ calls[1].name = "NotNull"
    /\ calls[1].field = <<"x">>
    /\ ~calls[1].ret
    /\ calls[2].name = "NotNull"
    /\ calls[2].field = <<"e">>
    /\ calls[2].ret

\* C10, as stated: on a null or missing field ValidateNotBlank and
\* ValidateNotEmpty return false and append the message ValidateNotNull
\* appends, "NotNull field '<field>' is required but was null or missing".
NullFieldSameMessageAsNotNull ==
    \A i \in 1..Len(calls) :
        (calls[i].name \in {"NotBlank", "NotEmpty"}
            /\ NullOrMissing(doc, calls[i].field)) =>
            /\ ReturnedFalse(calls[i])
            /\ calls[i].after =
                   WithMessage(calls[i].before,
                               RequiredMessage(<<"N", "o", "t", "N", "u", "l", "l">>,
                                               calls[i].field))

\* C10, amended: on a null or missing field ValidateNotBlank and
\* ValidateNotEmpty return false and append the wording of ValidateNotNull
\* under their own constraint name: "NotBlank field '<field>' is required
\* but was null or missing", "NotEmpty field '<field>' is required but was
\* null or missing".
NullFieldOwnConstraintName ==
    \A i \in 1..Len(calls) :
        (calls[i].name \in {"NotBlank", "NotEmpty"}
            /\ NullOrMissing(doc, calls[i].field)) =>
            /\ ReturnedFalse(calls[i])
            /\ calls[i].after =
                   WithMessage(calls[i].before,
                               RequiredMessage(
                                   IF calls[i].name = "NotBlank"
                                   THEN <<"N", "o", "t", "B", "l", "a", "n", "k">>
                                   ELSE <<"N", "o", "t", "E", "m", "p", "t", "y">>,
                                   calls[i].field))

NullFieldOwnConstraintNameWitness ==
    /\ doc.t = "obj"
    /\ Len(calls) = 2
    /\ calls[1].name = "NotBlank"
    /\ calls[1].field = <<"n">>
    /\ ~calls[1].ret
    /\ calls[2].name = "NotEmpty"
    /\ calls[2].field = <<"x">>
    /\ ~calls[2].ret

\* The field holds a JSON string.
HoldsString(d, fieldName) ==
    d.t = "obj" /\ \E i \in 1..Len(d.items) :
        d.items[i].k = fieldName /\ d.items[i].v.t = "str"

\* The node the document holds at a field it has.
Held(d, fieldName) ==
    d.items[CHOOSE i \in 1..Len(d.items) : d.items[i].k = fieldName].v

\* Every character of s is a space, a tab, a newline or a carriage return.
OnlyWhitespace(s) == \A i \in 1..Len(s) : s[i] \in {" ", "\t", "\n", "\r"}

\* "<constraint> field '<field>'<what>"
FieldMessage(constraint, fieldName, what) ==
    constraint \o FieldOpen \o fieldName \o what

\* C11: on a field holding a string s, ValidateNotBlank returns false iff
\* s has only spaces, tabs, newlines and carriage returns (the empty
\* string included), and then appends "NotBlank field '<field>' cannot be
\* empty or blank"; with any other character in s it returns true and
\* appends nothing.
NotBlankContract ==
    \A i \in 1..Len(calls) :
        (calls[i].name = "NotBlank" /\ HoldsString(doc, calls[i].field)) =>
            /\ calls[i].out = "return"
            /\ ~calls[i].ret <=> OnlyWhitespace(Held(doc, calls[i].field).s)
            /\ ~calls[i].ret =>
                   calls[i].after =
                       WithMessage(calls[i].before,
                           FieldMessage(<<"N", "o", "t", "B", "l", "a", "n", "k">>,
                                        calls[i].field,
                                        <<"'", " ", "c", "a", "n", "n", "o", "t", " ",
                                          "b", "e", " ", "e", "m", "p", "t", "y", " ",
                                          "o", "r", " ", "b", "l", "a", "n", "k">>))
            /\ calls[i].ret => calls[i].after = calls[i].before

NotBlankContractWitness ==
    /\ Len(calls) = 2
    /\ calls[1].name = "NotBlank"
    /\ calls[1].field = <<"b">>
    /\ ~calls[1].ret
    /\ calls[2].name = "NotBlank"
    /\ calls[2].field = <<"p">>
    /\ calls[2].ret
    /\ calls[2].out = "return"

\* C12: on a present non-null field ValidateNotEmpty fails exactly for a
\* string of length zero ("... cannot be empty"), an array of no elements
\* ("... (array/collection) cannot be empty") and an object of no keys
\* ("... (map) cannot be empty"); it passes for every other string, the
\* all-whitespace one included, array and object, and for numbers and
\* booleans.
NotEmptyContract ==
    \A i \in 1..Len(calls) :
        (calls[i].name = "NotEmpty" /\ ~NullOrMissing(doc, calls[i].field)) =>
            /\ calls[i].out = "return"
            /\ ~calls[i].ret <=>
                   /\ Held(doc, calls[i].field).t \in {"str", "arr", "obj"}
                   /\ Held(doc, calls[i].field).s = <<>>
                   /\ Held(doc, calls[i].field).items = <<>>
            /\ calls[i].ret => calls[i].after = calls[i].before
            /\ ~calls[i].ret =>
                   calls[i].after =
                       WithMessage(calls[i].before,
                           FieldMessage(<<"N", "o", "t", "E", "m", "p", "t", "y">>,
                               calls[i].field,
                               CASE Held(doc, calls[i].field).t = "arr" ->
                                        <<"'", " ", "(", "a", "r", "r", "a", "y", "/",
                                          "c", "o", "l", "l", "e", "c", "t", "i", "o",
                                          "n", ")", " ", "c", "a", "n", "n", "o", "t",
                                          " ", "b", "e", " ", "e", "m", "p", "t", "y">>
                                 [] Held(doc, calls[i].field).t = "obj" ->
                                        <<"'", " ", "(", "m", "a", "p", ")", " ", "c",
                                          "a", "n", "n", "o", "t", " ", "b", "e", " ",
                                          "e", "m", "p", "t", "y">>
                                 [] OTHER ->
                                        <<"'", " ", "c", "a", "n", "n", "o", "t", " ",
                                          "b", "e", " ", "e", "m", "p", "t", "y">>))

NotEmptyContractWitness ==
    /\ Len(calls) = 2
    /\ calls[1].name = "NotEmpty"
    /\ calls[1].field = <<"m">>
    /\ ~calls[1].ret
    /\ calls[2].name = "NotEmpty"
    /\ calls[2].field = <<"b">>
    /\ calls[2].ret

\* C13: a validator call never ends in an error: for a missing, null,
\* string, number, boolean, array or object field, ValidateNotNull,
\* ValidateNotBlank and ValidateNotEmpty complete and return a boolean;
\* ValidateNotBlank on a present non-string field returns normally.
ValidatorsAlwaysReturn ==
    \A i \in 1..Len(calls) : calls[i].out = "return"

\* The parse reads all of the text, up to a node of kind t with n items.
WholeTextIs(parsed, input, t, n) ==
    /\ parsed.ok
    /\ parsed.next = Len(input) + 1
    /\ parsed.node.t = t
    /\ Len(parsed.node.items) = n

\* C14: Serialize of a sequential container or fixed-size array returns
\* the text of a JSON array with one item per element, and Serialize of an
\* associative container the text of a JSON object with one member per
\* entry: "[]" and "{}" for the empty containers, and also when an
\* element's own serialized text is not JSON.
ContainerJsonShape ==
    (op = "Serialize" /\ result.st = "ok") =>
        /\ is_sequential_container_v(ty) =>
               /\ WholeTextIs(Parse(text), text, "arr", Len(value))
               /\ value = <<>> => text = <<"[", "]">>
        /\ is_associative_container_v(ty) =>
               /\ WholeTextIs(Parse(text), text, "obj", Len(value))
               /\ value = <<>> => text = <<"{", "}">>

\* A vector of optional strings: one absent, whose text is empty, and one
\* holding the text a, neither of them JSON.
ContainerJsonShapeWitness ==
    /\ op = "Serialize"
    /\ result.st = "ok"
    /\ ty = SeqOf("vector", OptionalOf(TString))
    /\ value = << <<>>, << <<"a">> >> >>
    /\ ~Parse(<<"a">>).ok
    /\ ~Parse(<<>>).ok

PrecedenceOrder ==
    <<"Optional", "Primitive", "Enum", "SequentialContainer",
      "AssociativeContainer", "Composite">>

HasShape(T, c) ==
    CASE c = "Optional" -> is_optional_type_v(T)
      [] c = "Primitive" -> is_primitive_type_v(T)
      [] c = "Enum" -> is_enum_v(T)
      [] c = "SequentialContainer" -> is_sequential_container_v(T)
      [] c = "AssociativeContainer" -> is_associative_container_v(T)
      [] OTHER -> TRUE

PrecedenceCategory(T) ==
    PrecedenceOrder[CHOOSE i \in 1..Len(PrecedenceOrder) :
                       /\ HasShape(T, PrecedenceOrder[i])
                       /\ \A j \in 1..(i - 1) : ~HasShape(T, PrecedenceOrder[j])]

\* C16: the category Serialize selects for a type and the category
\* Deserialize selects for it are both the one the precedence Optional >
\* Primitive > Enum > SequentialContainer > AssociativeContainer > Composite
\* gives, and a type has at most one of the five shapes before the
\* fallback; both selections are functions of the type alone.
DispatchFollowsPrecedence ==
    op # "idle" =>
        /\ SerializeCategory(ty) = PrecedenceCategory(ty)
        /\ DeserializeCategory(ty) = PrecedenceCategory(ty)
        /\ Cardinality({i \in 1..5 : HasShape(ty, PrecedenceOrder[i])}) <= 1

\* Deserialize called for a map, the last shape before the fallback, and
\* for a map whose values are enums.
DispatchFollowsPrecedenceWitness ==
    /\ op = "Deserialize"
    /\ ty = MapOf(TString, TEnum)
    /\ DeserializeCategory(ty) = "AssociativeContainer"
    /\ SerializeCategory(ty.args[2]) = "Enum"

\* The type is an enum, or a container with an enum as element or value.
ReachesEnum(T) ==
    \/ is_enum_v(T)
    \/ /\ is_sequential_container_v(T) \/ is_associative_container_v(T)
       /\ \E i \in 1..Len(T.args) : is_enum_v(T.args[i])

\* C17: for an enum with no Serialize/Deserialize specialization, none
\* of Serialize, Deserialize, SerializeValue and DeserializeValue returns
\* a result, for the enum itself and for a container whose elements or
\* values are of the enum: the call does not compile, and no text, number
\* or default value comes out of it.
UnregisteredEnumRejected ==
    (op # "idle" /\ ReachesEnum(ty)) =>
        /\ result.st = "ill_formed"
        /\ result.val = <<>>
        /\ op \in {"Serialize", "SerializeValue"} => text = <<>>

\* A vector of the enum asked from the text [1].
UnregisteredEnumRejectedWitness ==
    /\ op = "Deserialize"
    /\ ty = SeqOf("vector", TEnum)
    /\ text = <<"[", "1", "]">>
    /\ result.st = "ill_formed"

\* C18: Deserialize for a character type returns the character itself
\* for a one-character text (the text a gives the character a, the text 5
\* the character 5), the zero value for the empty text, parses a longer
\* text as an integer, and fails with a conversion error only for a text
\* of several characters that is not a number.
CharDeserialization ==
    (op = "Deserialize" /\ ~roundTrip /\ IsCharType(ty)) =>
        /\ Len(text) = 1 => (result.st = "ok" /\ result.val = Ord(text[1]))
        /\ text = <<>> => (result.st = "ok" /\ result.val = 0)
        /\ (Len(text) > 1 /\ TextIsInteger(text)) => result.st = "ok"
        /\ result.st = "throw" => (Len(text) > 1 /\ ~TextIsInteger(text))

\* The JSON type a primitive element type is written with.
NodeHasTypeOf(E, node) ==
    IF IsBoolType(E) THEN node.t = "bool"
    ELSE IF IsStringType(E) THEN node.t = "str"
    ELSE IF IsCharType(E) THEN TRUE
    ELSE node.t = "num"

\* C19: a serialized container holds each primitive element or map value
\* with the JSON type of its own type: a string as a JSON string, a
\* boolean as a JSON boolean, an integer as a JSON number; a string map
\* value whose text is 123, true or null is a JSON string too.
ElementJsonTypes ==
    (op = "Serialize" /\ result.st = "ok") =>
        /\ (is_sequential_container_v(ty) /\ is_primitive_type_v(ty.args[1])) =>
               \A i \in 1..Len(Parse(text).node.items) :
                   NodeHasTypeOf(ty.args[1], Parse(text).node.items[i])
        /\ (is_associative_container_v(ty) /\ is_primitive_type_v(ty.args[2])) =>
               \A i \in 1..Len(Parse(text).node.items) :
                   NodeHasTypeOf(ty.args[2], Parse(text).node.items[i].v)

\* The text is a decimal integer that the type holds.
DenotesValueOf(T, input) ==
    /\ TextIsInteger(input)
    /\ MinOf(T) <= TextIntegerValue(input)
    /\ TextIntegerValue(input) <= MaxOf(T)

\* C20: Deserialize for an integer type returns v only when the text
\* denotes the integer v and the type holds v; for every other text (no
\* number, characters after the digits as in 12abc, a negative literal
\* for an unsigned type, a value out of the type's range) it fails with
\* a conversion error that carries the text, and no wrapped or truncated
\* value is returned.
IntegralParseStrict ==
    (op = "Deserialize" /\ ~roundTrip /\ ty \in {TInt, TUInt, TLong, TULong}) =>
        /\ result.st = "ok" =>
               (DenotesValueOf(ty, text) /\ result.val = TextIntegerValue(text))
        /\ ~DenotesValueOf(ty, text) =>
               (result.st = "throw" /\ result.detail = text)

\* The two cases of a letter, and the letter-case variants of a word.
CaseVariants(c) ==
    CASE c = "a" -> {"a", "A"} [] c = "e" -> {"e", "E"} [] c = "f" -> {"f", "F"}
      [] c = "l" -> {"l", "L"} [] c = "r" -> {"r", "R"} [] c = "s" -> {"s", "S"}
      [] c = "t" -> {"t", "T"} [] c = "u" -> {"u", "U"}
      [] OTHER -> {c}

IsCaseVariantOf(input, word) ==
    /\ Len(input) = Len(word)
    /\ \A i \in 1..Len(word) : input[i] \in CaseVariants(word[i])

\* C21: Deserialize<bool> returns true for every letter-case variant of
\* true and for 1, false for every letter-case variant of false and for 0,
\* and for every other text, the empty text and a text with white space
\* around the word included, fails with a conversion error that carries
\* the text.
BoolDeserialization ==
    (op = "Deserialize" /\ ~roundTrip /\ ty = TBool) =>
        IF IsCaseVariantOf(text, <<"t", "r", "u", "e">>) \/ text = <<"1">>
        THEN result.st = "ok" /\ result.val = TRUE
        ELSE IF IsCaseVariantOf(text, <<"f", "a", "l", "s", "e">>) \/ text = <<"0">>
        THEN result.st = "ok" /\ result.val = FALSE
        ELSE /\ result.st = "throw"
             /\ result.err = "Invalid boolean value: "
             /\ result.detail = text

\* The text FaLsE, a mixed-case variant of false.
BoolDeserializationWitness ==
    /\ op = "Deserialize"
    /\ ~roundTrip
    /\ ty = TBool
    /\ text = <<"F", "a", "L", "s", "E">>
    /\ result.st = "ok"
    /\ result.val = FALSE

\* The JSON type of the node is the one of the primitive type: a boolean
\* for bool, a string for a string, an integer the type holds for an
\* integer type.
JsonTypeMatches(T, node) ==
    IF IsBoolType(T) THEN node.t = "bool"
    ELSE IF IsStringType(T) THEN node.t = "str"
    ELSE node.t = "num" /\ MinOf(T) <= node.n /\ node.n <= MaxOf(T)

NativeScalar(T, node) ==
    IF IsBoolType(T) THEN node.b ELSE IF IsStringType(T) THEN node.s ELSE node.n

\* What the inner type gives for a text that is not absent.
InnerOutcome(T, input, parsed) ==
    IF ~parsed.ok THEN Deserialize(T, input)
    ELSE IF ~is_primitive_type_v(T) THEN Deserialize(T, Write(parsed.node))
    ELSE IF JsonTypeMatches(T, parsed.node) THEN Ok(NativeScalar(T, parsed.node))
    ELSE Deserialize(T, input)

\* The optional holds the inner value, or the inner error came through.
IsPresentOf(r, inner) ==
    /\ r.st = inner.st
    /\ inner.st = "ok" => r.val = <<inner.val>>
    /\ inner.st # "ok" => (r.err = inner.err /\ r.detail = inner.detail)

\* C22: Deserialize of an optional from a text that is none of the
\* absent forms returns a present value: for a text that parses and a
\* primitive inner type, the JSON scalar when its JSON type is the inner
\* type's, else Deserialize of the inner type on the text; for another
\* inner type, Deserialize of it on the JSON written again; for a text
\* that does not parse, Deserialize of the inner type on the text.  An
\* error of the inner Deserialize comes through; it does not give absent.
OptionalPresentValue ==
    (/\ op = "Deserialize"
     /\ is_optional_type_v(ty)
     /\ result.st # "ill_formed"
     /\ ~OptionalInputIsAbsent(text)
     /\ ~ParsesToNull(text)) =>
        IsPresentOf(result, InnerOutcome(ty.args[1], text, Parse(text)))

\* The bare word a, which is not JSON, asked as an optional string.
OptionalPresentValueWitness ==
    /\ op = "Deserialize"
    /\ ty = OptionalOf(TString)
    /\ text = <<"a">>
    /\ ~Parse(text).ok
    /\ result.st = "ok"
    /\ result.val = << <<"a">> >>

\* C23: Serialize of an optional returns the empty text when the value
\* is absent and the text Serialize returns for the inner value when it is
\* present, for every inner type: a primitive, a container, an optional.
OptionalSerialize ==
    (op = "Serialize" /\ is_optional_type_v(ty)) =>
        /\ result.st = "ok"
        /\ value = <<>> => text = <<>>
        /\ value # <<>> => text = Serialize(ty.args[1], value[1]).text

\* An optional holding the vector 0, 1.
OptionalSerializeWitness ==
    /\ op = "Serialize"
    /\ ty = OptionalOf(SeqOf("vector", TInt))
    /\ value = << <<0, 1>> >>
    /\ text = <<"[", "0", ",", "1", "]">>

\* The key a member's key text stands for: the text for a string key, the
\* number it spells for an integer key.
KeyOf(K, k) == IF IsStringType(K) THEN k ELSE TextIntegerValue(k)

\* Map m holds, for every member, one entry under the member's key, with
\* the value of the last member that has this key.
LastWins(T, m, members) ==
    /\ Len(m) <= Len(members)
    /\ \A i, j \in 1..Len(m) : i # j => m[i].k # m[j].k
    /\ \A i \in 1..Len(members) :
          \E e \in 1..Len(m) :
              /\ m[e].k = KeyOf(T.args[1], members[i].k)
              /\ (\A j \in (i + 1)..Len(members) :
                      KeyOf(T.args[1], members[j].k) # m[e].k) =>
                     m[e].v = DeserializeElement(T.args[2], members[i].v).val

\* C24: a map deserialized from a JSON object holds one entry for each
\* key the members' keys deserialize to, with the value of the member that
\* comes last in the object: for a repeated key, and for an integer-keyed
\* map for key texts such as 1 and 01 that spell one number; it never has
\* more entries than the object has members.
MapLastEntryWins ==
    (op = "Deserialize" /\ is_associative_container_v(ty) /\ result.st = "ok") =>
        LastWins(ty, result.val, Parse(text).node.items)

\* The object {"1":true,"01":false} asked as a map from int to bool.
MapLastEntryWinsWitness ==
    /\ op = "Deserialize"
    /\ ty = MapOf(TInt, TBool)
    /\ text = <<"{", "\"", "1", "\"", ":", "t", "r", "u", "e", ",",
                "\"", "0", "1", "\"", ":", "f", "a", "l", "s", "e", "}">>
    /\ Len(Parse(text).node.items) = 2
    /\ result.st = "ok"
    /\ result.val = <<[k |-> 1, v |-> FALSE]>>

\* The element type has a codec of its own category in the dispatcher.
HasContainerCodec(E) ==
    is_sequential_container_v(E) \/ is_associative_container_v(E) \/ is_optional_type_v(E)

\* C25: a container's Deserialize hands every element and every map
\* value to the dispatcher Deserialize<T> uses, whatever the element's
\* category: an element that is a sequential container, a map or an
\* optional is deserialized by that category's codec (a vector of int
\* vectors, a map whose values are vectors), not by the element type's
\* own Deserialize member.
NestedElementsDispatched ==
    (op = "Deserialize" /\ Parse(text).ok) =>
        /\ (is_sequential_container_v(ty) /\ HasContainerCodec(ty.args[1])) =>
               /\ result.st # "ill_formed"
               /\ (result.st = "ok" /\ ~is_std_array_type(ty) /\ ty.name # "set") =>
                      result.val =
                          [i \in 1..Len(Parse(text).node.items) |->
                              Deserialize(ty.args[1],
                                          Write(Parse(text).node.items[i])).val]
        /\ (is_associative_container_v(ty) /\ HasContainerCodec(ty.args[2])) =>
               result.st # "ill_formed"

\* C26: Deserialize of a container stores no default in place of an
\* element: when a JSON array element or a JSON object value has a JSON
\* type that does not convert to the primitive element type (a string or
\* an object for an integer, a number for a string, a negative number for
\* an unsigned type, null for any primitive), Deserialize fails with a
\* conversion error and stores no 0, false or empty string.
NoDefaultSubstitution ==
    (op = "Deserialize" /\ Parse(text).ok) =>
        /\ (/\ is_sequential_container_v(ty)
            /\ is_primitive_type_v(ty.args[1])
            /\ IsArrNode(Parse(text).node)
            /\ \E i \in 1..Len(Parse(text).node.items) :
                   ~JsonTypeMatches(ty.args[1], Parse(text).node.items[i])) =>
               result.st = "throw"
        /\ (/\ is_associative_container_v(ty)
            /\ is_primitive_type_v(ty.args[2])
            /\ IsObjNode(Parse(text).node)
            /\ \E i \in 1..Len(Parse(text).node.items) :
                   ~JsonTypeMatches(ty.args[2], Parse(text).node.items[i].v)) =>
               result.st = "throw"

=============================================================================
